---- MODULE Spec2Model ----
(***************************************************************************)
(* Model of the media-lookup server (asset cache ingestion and the         *)
(* /api/findResources query handler).                                      *)
(*                                                                         *)
(* JavaScript strings are sequences of one-character strings, so that      *)
(* toLowerCase, trim, split, includes, parseInt and toString are computed  *)
(* and not assumed.  An optional value (absent / undefined / null) is a    *)
(* sequence of length 0 or 1: None or Some(v).                             *)
(***************************************************************************)
EXTENDS Integers, Sequences, FiniteSets, TLC

(* ------------------------------ bounds -------------------------------- *)
\* the upstream dataset is split across 1..MaxPages listing pages
MaxPages == 3
\* size of the small upstream dataset
SmallSize == 2

(* ------------------------- program constants -------------------------- *)
ASSETS_PER_PAGE == 50
DEFAULT_WIDTH == 400
DEFAULT_HEIGHT == 300

(* --------------------------- optional values -------------------------- *)
None == <<>>
Some(v) == <<v>>
IsSome(o) == Len(o) = 1
Get(o) == o[1]

(* ------------------------------ strings ------------------------------- *)
UpperToLower ==
  [c \in {"A","B","C","D","E","F","G","H","I","J","K","L","M","N","O","P","Q",
          "R","S","T","U","V","W","X","Y","Z"} |->
     CASE c = "A" -> "a" [] c = "B" -> "b" [] c = "C" -> "c" [] c = "D" -> "d"
       [] c = "E" -> "e" [] c = "F" -> "f" [] c = "G" -> "g" [] c = "H" -> "h"
       [] c = "I" -> "i" [] c = "J" -> "j" [] c = "K" -> "k" [] c = "L" -> "l"
       [] c = "M" -> "m" [] c = "N" -> "n" [] c = "O" -> "o" [] c = "P" -> "p"
       [] c = "Q" -> "q" [] c = "R" -> "r" [] c = "S" -> "s" [] c = "T" -> "t"
       [] c = "U" -> "u" [] c = "V" -> "v" [] c = "W" -> "w" [] c = "X" -> "x"
       [] c = "Y" -> "y" [] c = "Z" -> "z"]

\* String.prototype.toLowerCase
toLowerCase(s) ==
  [i \in 1..Len(s) |-> IF s[i] \in DOMAIN UpperToLower THEN UpperToLower[s[i]] ELSE s[i]]

\* the characters matched by \s and removed by trim()
WhiteSpace == {" ", "\t", "\n", "\r"}

\* String.prototype.trim
RECURSIVE trimStart(_)
trimStart(s) ==
  IF s # <<>> /\ Head(s) \in WhiteSpace THEN trimStart(Tail(s)) ELSE s

RECURSIVE trimEnd(_)
trimEnd(s) ==
  IF s # <<>> /\ s[Len(s)] \in WhiteSpace THEN trimEnd(SubSeq(s, 1, Len(s) - 1)) ELSE s

trim(s) == trimEnd(trimStart(s))

\* String.prototype.includes: t occurs in s as a contiguous run
includes(s, t) ==
  \E i \in 0..(Len(s) - Len(t)) : \A j \in 1..Len(t) : s[i + j] = t[j]

\* String.prototype.split(/\s+/): the pieces between maximal runs of white
\* space; a leading or trailing run yields an empty first or last piece
RECURSIVE splitWs(_, _, _)
splitWs(s, cur, inGap) ==
  IF s = <<>> THEN <<cur>>
  ELSE IF Head(s) \in WhiteSpace
       THEN IF inGap THEN splitWs(Tail(s), cur, TRUE)
            ELSE <<cur>> \o splitWs(Tail(s), <<>>, TRUE)
       ELSE splitWs(Tail(s), Append(cur, Head(s)), FALSE)

splitWhitespace(s) == splitWs(s, <<>>, FALSE)

\* String.prototype.split('/')
RECURSIVE splitSl(_, _)
splitSl(s, cur) ==
  IF s = <<>> THEN <<cur>>
  ELSE IF Head(s) = "/" THEN <<cur>> \o splitSl(Tail(s), <<>>)
       ELSE splitSl(Tail(s), Append(cur, Head(s)))

splitSlash(s) == splitSl(s, <<>>)

\* Array.prototype.join(' ')
RECURSIVE joinSpace(_)
joinSpace(parts) ==
  IF parts = <<>> THEN <<>>
  ELSE IF Len(parts) = 1 THEN parts[1]
       ELSE parts[1] \o <<" ">> \o joinSpace(Tail(parts))

(* ------------------------------ numbers ------------------------------- *)
Digits == <<"0", "1", "2", "3", "4", "5", "6", "7", "8", "9">>
IsDigit(c) == \E d \in 1..10 : Digits[d] = c
DigitVal(c) == (CHOOSE d \in 1..10 : Digits[d] = c) - 1

\* a JavaScript number as far as the handler uses it: an integer or NaN
NaN == [nan |-> TRUE, n |-> 0]
Num(k) == [nan |-> FALSE, n |-> k]

\* value of the longest prefix of decimal digits of s, given the value so far
RECURSIVE digitsValue(_, _)
digitsValue(s, acc) ==
  IF s # <<>> /\ IsDigit(Head(s)) THEN digitsValue(Tail(s), 10 * acc + DigitVal(Head(s)))
  ELSE acc

\* parseInt(string): skips leading white space, reads an optional sign and
\* the longest run of decimal digits, NaN when there is no digit
parseInt(str) ==
  LET s    == trimStart(str)
      neg  == s # <<>> /\ Head(s) = "-"
      sgn  == s # <<>> /\ Head(s) \in {"-", "+"}
      body == IF sgn THEN Tail(s) ELSE s
  IN  IF body = <<>> \/ ~IsDigit(Head(body)) THEN NaN
      ELSE Num(IF neg THEN 0 - digitsValue(body, 0) ELSE digitsValue(body, 0))

\* Number.prototype.toString of an integer
RECURSIVE natToString(_)
natToString(k) ==
  IF k < 10 THEN <<Digits[k + 1]>> ELSE Append(natToString(k \div 10), Digits[(k % 10) + 1])

intToString(k) == IF k < 0 THEN <<"-">> \o natToString(0 - k) ELSE natToString(k)

\* Array.prototype.slice(start, end) with JavaScript's index clamping
\* (a negative index counts from the end, NaN is 0)
sliceIndex(x, len) ==
  IF x.nan THEN 0
  ELSE IF x.n < 0 THEN (IF len + x.n < 0 THEN 0 ELSE len + x.n)
       ELSE (IF x.n > len THEN len ELSE x.n)

slice(arr, start, end) ==
  SubSeq(arr, sliceIndex(start, Len(arr)) + 1, sliceIndex(end, Len(arr)))

(* --------------------------- getContentType --------------------------- *)
\* a value is truthy when it is present and not the empty string / zero
TruthyStr(o) == IsSome(o) /\ Get(o) # <<>>
TruthyNum(o) == IsSome(o) /\ Get(o) # 0

\* format?.toLowerCase() || ''
formatLowerOf_CaseSensitive(format) == IF TruthyStr(format) THEN Get(format) ELSE <<>>
formatLowerOf(format) == IF TruthyStr(format) THEN toLowerCase(Get(format)) ELSE <<>>

typesImage ==
  [f \in {<<"j", "p", "g">>,
     <<"j", "p", "e", "g">>,
     <<"p", "n", "g">>,
     <<"g", "i", "f">>,
     <<"w", "e", "b", "p">>,
     <<"s", "v", "g">>,
     <<"a", "v", "i", "f">>,
     <<"t", "i", "f", "f">>} |->
     CASE f = <<"j", "p", "g">> -> "image/jpeg"
       [] f = <<"j", "p", "e", "g">> -> "image/jpeg"
       [] f = <<"p", "n", "g">> -> "image/png"
       [] f = <<"g", "i", "f">> -> "image/gif"
       [] f = <<"w", "e", "b", "p">> -> "image/webp"
       [] f = <<"s", "v", "g">> -> "image/svg+xml"
       [] f = <<"a", "v", "i", "f">> -> "image/avif"
       [] f = <<"t", "i", "f", "f">> -> "image/tiff"]

typesVideo ==
  [f \in {<<"m", "p", "4">>,
     <<"m", "o", "v">>,
     <<"a", "v", "i">>,
     <<"m", "k", "v">>,
     <<"w", "e", "b", "m">>,
     <<"f", "l", "v">>} |->
     CASE f = <<"m", "p", "4">> -> "video/mp4"
       [] f = <<"m", "o", "v">> -> "video/quicktime"
       [] f = <<"a", "v", "i">> -> "video/x-msvideo"
       [] f = <<"m", "k", "v">> -> "video/x-matroska"
       [] f = <<"w", "e", "b", "m">> -> "video/webm"
       [] f = <<"f", "l", "v">> -> "video/x-flv"]

typesAudio ==
  [f \in {<<"m", "p", "3">>,
     <<"w", "a", "v">>,
     <<"o", "g", "g">>,
     <<"m", "4", "a">>,
     <<"f", "l", "a", "c">>,
     <<"a", "a", "c">>} |->
     CASE f = <<"m", "p", "3">> -> "audio/mpeg"
       [] f = <<"w", "a", "v">> -> "audio/wav"
       [] f = <<"o", "g", "g">> -> "audio/ogg"
       [] f = <<"m", "4", "a">> -> "audio/mp4"
       [] f = <<"f", "l", "a", "c">> -> "audio/flac"
       [] f = <<"a", "a", "c">> -> "audio/aac"]

OCTET_STREAM == "application/octet-stream"

getContentType(type, format) ==
  LET formatLower == formatLowerOf(format)
  IN  IF type = "image" /\ formatLower \in DOMAIN typesImage THEN typesImage[formatLower]
      ELSE IF type = "video" /\ formatLower \in DOMAIN typesVideo THEN typesVideo[formatLower]
      ELSE IF type = "raw" /\ formatLower \in DOMAIN typesAudio THEN typesAudio[formatLower]
      ELSE OCTET_STREAM

(* ------------------- the asset mapping of updateAssetCache ------------ *)
audioFormats == {<<"m", "p", "3">>, <<"w", "a", "v">>, <<"o", "g", "g">>, <<"m", "4", "a">>, <<"f", "l", "a", "c">>, <<"a", "a", "c">>}

\* the classification label and the effective resource type handed to
\* getContentType
classify_AudioFirst(resource_type, format) ==
  IF resource_type = "image" THEN [type |-> "IMAGE", assetResourceType |-> resource_type]
  ELSE IF formatLowerOf(format) \in audioFormats
       THEN [type |-> "AUDIO", assetResourceType |-> "audio"]
  ELSE IF resource_type = "video" THEN [type |-> "VIDEO", assetResourceType |-> resource_type]
  ELSE [type |-> "FILE", assetResourceType |-> resource_type]
classify(resource_type, format) ==
  IF resource_type = "image" THEN [type |-> "IMAGE", assetResourceType |-> resource_type]
  ELSE IF resource_type = "video" THEN [type |-> "VIDEO", assetResourceType |-> resource_type]
  ELSE IF resource_type = "raw" /\ formatLowerOf(format) \in audioFormats
       THEN [type |-> "AUDIO", assetResourceType |-> "audio"]
  ELSE [type |-> "FILE", assetResourceType |-> resource_type]

\* the characters of the classification label, as the template literal
\* writes them
typeChars(type) ==
  CASE type = "IMAGE" -> <<"I", "M", "A", "G", "E">>
    [] type = "VIDEO" -> <<"V", "I", "D", "E", "O">>
    [] type = "AUDIO" -> <<"A", "U", "D", "I", "O">>
    [] type = "FILE"  -> <<"F", "I", "L", "E">>

\* cloudinary.url(public_id, options): the external display-URL capability,
\* a deterministic function of its arguments
cloudinaryUrl(public_id, options) ==
  [src |-> "cloudinary", public_id |-> public_id, options |-> options]

previewOptions(resource_type) ==
  [width |-> 400, height |-> 300, transform |-> TRUE, resource_type |-> resource_type]
thumbnailOptions(resource_type) ==
  [width |-> 200, height |-> 150, transform |-> TRUE, resource_type |-> resource_type]
originalOptions(resource_type) ==
  [width |-> 0, height |-> 0, transform |-> FALSE, resource_type |-> resource_type]

AUDIO_THUMBNAIL == [src |-> "placeholder", size |-> "200x150", text |-> "Audio"]
AUDIO_PREVIEW == [src |-> "placeholder", size |-> "400x300", text |-> "Audio+File"]

\* asset.public_id.split('/').pop() || asset.public_id
nameOf_NoFallback(public_id) == splitSlash(public_id)[Len(splitSlash(public_id))]
nameOf(public_id) ==
  LET parts == splitSlash(public_id)
      last  == parts[Len(parts)]
  IN  IF last # <<>> THEN last ELSE public_id

\* `${asset.public_id} ${asset.tags?.join(' ')} ${type} ${format}`.toLowerCase()
\* (an absent tag list interpolates as the text "undefined")
searchableOf(asset, type) ==
  toLowerCase(asset.public_id \o <<" ">>
              \o (IF IsSome(asset.tags) THEN joinSpace(Get(asset.tags))
                  ELSE <<"u", "n", "d", "e", "f", "i", "n", "e", "d">>)
              \o <<" ">> \o typeChars(type)
              \o <<" ">> \o formatLowerOf(asset.format))

\* if (type === 'AUDIO'): thumbnailUrl and previewUrl are replaced by the
\* placeholder images
usesPlaceholder_AudioVideo(type) == type \in {"AUDIO", "VIDEO"}
usesPlaceholder(type) == type = "AUDIO"

\* the callback of result.resources.map
mapAsset(asset) ==
  LET c == classify(asset.resource_type, asset.format)
  IN  [id          |-> IF TruthyStr(asset.asset_id) THEN Get(asset.asset_id) ELSE asset.public_id,
       name        |-> nameOf(asset.public_id),
       url         |-> cloudinaryUrl(asset.public_id, originalOptions(asset.resource_type)),
       type        |-> c.type,
       contentType |-> getContentType(c.assetResourceType, asset.format),
       format      |-> asset.format,
       tags        |-> IF IsSome(asset.tags) THEN Get(asset.tags) ELSE <<>>,
       thumbnail   |-> IF usesPlaceholder(c.type) THEN AUDIO_THUMBNAIL
                       ELSE cloudinaryUrl(asset.public_id, thumbnailOptions(asset.resource_type)),
       preview     |-> IF usesPlaceholder(c.type) THEN AUDIO_PREVIEW
                       ELSE cloudinaryUrl(asset.public_id, previewOptions(asset.resource_type)),
       width       |-> IF TruthyNum(asset.width) THEN Get(asset.width) ELSE DEFAULT_WIDTH,
       height      |-> IF TruthyNum(asset.height) THEN Get(asset.height) ELSE DEFAULT_HEIGHT,
       searchable  |-> searchableOf(asset, c.type)]

mapResources(resources) == [i \in 1..Len(resources) |-> mapAsset(resources[i])]

(* ------------------------- the upstream dataset ----------------------- *)
\* resource kinds the search expression selects
ResourceTypes == <<"image", "video", "raw">>

\* format tokens of the records: every key of the three tables, a format of
\* no table, upper- and mixed-case spellings and an absent format
Formats ==
  <<Some(<<"j", "p", "g">>),
     Some(<<"j", "p", "e", "g">>),
     Some(<<"p", "n", "g">>),
     Some(<<"g", "i", "f">>),
     Some(<<"w", "e", "b", "p">>),
     Some(<<"s", "v", "g">>),
     Some(<<"a", "v", "i", "f">>),
     Some(<<"t", "i", "f", "f">>),
     Some(<<"m", "p", "4">>),
     Some(<<"m", "o", "v">>),
     Some(<<"a", "v", "i">>),
     Some(<<"m", "k", "v">>),
     Some(<<"w", "e", "b", "m">>),
     Some(<<"f", "l", "v">>),
     Some(<<"m", "p", "3">>),
     Some(<<"w", "a", "v">>),
     Some(<<"o", "g", "g">>),
     Some(<<"m", "4", "a">>),
     Some(<<"f", "l", "a", "c">>),
     Some(<<"a", "a", "c">>),
     Some(<<"p", "d", "f">>),
     Some(<<"M", "P", "3">>),
     Some(<<"J", "P", "G">>),
     Some(<<"F", "l", "a", "c">>),
     None>>

TagLists ==
  <<None,
    Some(<<>>),
    Some(<<<<"c", "a", "t">>>>),
    Some(<<<<"D", "o", "g">>, <<"b", "i", "g", " ", "c", "a", "t">>>>)>>

Dimensions == <<None, Some(0), Some(0 - 10), Some(640), Some(1)>>

\* the i-th record of the upstream listing
RawAsset(i) ==
  IF i = 1
  THEN [asset_id |-> None, public_id |-> <<"c", "a", "t", "_", "p", "h", "o", "t", "o">>,
        resource_type |-> "image", format |-> Some(<<"j", "p", "g">>),
        tags |-> Some(<<<<"t", "a", "g", "1">>, <<"t", "a", "g", "2">>>>),
        width |-> Some(800), height |-> Some(600)]
  ELSE IF i = 2
  THEN [asset_id |-> Some(<<"A", "2">>), public_id |-> <<"M", "u", "s", "i", "c", "/", "S", "o", "n", "g">>,
        resource_type |-> "raw", format |-> Some(<<"M", "P", "3">>),
        tags |-> None, width |-> None, height |-> None]
  ELSE IF i = 3
  THEN [asset_id |-> Some(<<>>), public_id |-> <<"d", "o", "c", "s", "/">>,
        resource_type |-> "raw", format |-> Some(<<"p", "d", "f">>),
        tags |-> Some(<<>>), width |-> Some(0), height |-> Some(0 - 5)]
  ELSE [asset_id      |-> IF i % 2 = 0 THEN Some(<<"A">> \o intToString(i)) ELSE None,
        public_id     |-> <<"f", "/", "x">> \o intToString(i),
        resource_type |-> ResourceTypes[(i % Len(ResourceTypes)) + 1],
        format        |-> Formats[(i % Len(Formats)) + 1],
        tags          |-> TagLists[(i % Len(TagLists)) + 1],
        width         |-> Dimensions[(i % Len(Dimensions)) + 1],
        height        |-> Dimensions[((i \div 2) % Len(Dimensions)) + 1]]

\* a dataset long enough for three query pages: 50, 50 and 20
LargeSize == 2 * ASSETS_PER_PAGE + 20

\* the datasets: <<number of records, number of listing pages>>
Datasets == {<<SmallSize, n>> : n \in 1..MaxPages} \cup {<<LargeSize, MaxPages>>}

\* the dataset of `total` records is listed in `npages` pages of equal
\* size (the last one shorter)
PageLen(total, npages) == (total + npages - 1) \div npages

PageRecords(total, npages, k) ==
  LET lo == (k - 1) * PageLen(total, npages) + 1
      hi == IF k * PageLen(total, npages) < total THEN k * PageLen(total, npages) ELSE total
  IN  [i \in 1..(hi - lo + 1) |-> RawAsset(lo + i - 1)]

\* the opaque cursor the upstream hands out for page k >= 2
CursorOfPage(k) == <<"p">> \o intToString(k)
PageOfCursor(cursor) == IF cursor = None THEN 1 ELSE parseInt(Tail(Get(cursor))).n

\* cloudinary.search...next_cursor(cursor).execute() when it succeeds
listPage(total, npages, cursor) ==
  LET k == PageOfCursor(cursor)
  IN  [resources   |-> PageRecords(total, npages, k),
       next_cursor |-> IF k < npages THEN Some(CursorOfPage(k + 1)) ELSE None]

(* ------------------- the /api/findResources handler ------------------- *)
NOT_READY_RESPONSE ==
  [status |-> 503, type |-> "ERROR", resources |-> <<>>, continuation |-> None]

\* if (!cacheInitialized) return res.status(503)...
notReady_Never(initialized) == FALSE
notReady(initialized) == ~initialized

\* (searchText || '').trim()
queryOf(searchText) == trim(IF TruthyStr(searchText) THEN Get(searchText) ELSE <<>>)

\* query.toLowerCase().split(/\s+/)
searchTermsOf_CaseSensitive(query) == splitWhitespace(query)
searchTermsOf(query) == splitWhitespace(toLowerCase(query))

\* searchTerms.every(term => asset.searchable.includes(term))
matchesAll_Some(asset, searchTerms) ==
  \E k \in 1..Len(searchTerms) : includes(asset.searchable, searchTerms[k])
matchesAll(asset, searchTerms) ==
  \A k \in 1..Len(searchTerms) : includes(asset.searchable, searchTerms[k])

\* the filteredAssets of the handler
filterAssets_Reversed(cache, searchText) ==
  LET query == queryOf(searchText)
      kept  == IF query # <<>>
               THEN LET searchTerms == searchTermsOf(query)
                        test(asset) == matchesAll(asset, searchTerms)
                    IN  SelectSeq(cache, test)
               ELSE cache
  IN  [i \in 1..Len(kept) |-> kept[Len(kept) + 1 - i]]
filterAssets(cache, searchText) ==
  LET query == queryOf(searchText)
  IN  IF query # <<>>
      THEN LET searchTerms == searchTermsOf(query)
               test(asset) == matchesAll(asset, searchTerms)
           IN  SelectSeq(cache, test)
      ELSE cache

\* cursor ? parseInt(cursor) : 0
startIndexOf_Zero(cursor) == Num(0)
startIndexOf(cursor) == IF TruthyStr(cursor) THEN parseInt(Get(cursor)) ELSE Num(0)

\* startIndex + ASSETS_PER_PAGE
endIndexOf_Double(startIndex) ==
  IF startIndex.nan THEN NaN ELSE Num(startIndex.n + 2 * ASSETS_PER_PAGE)
endIndexOf(startIndex) ==
  IF startIndex.nan THEN NaN ELSE Num(startIndex.n + ASSETS_PER_PAGE)

\* endIndex < filteredAssets.length ? endIndex.toString() : null
nextCursorOf_OffByOne(endIndex, length) ==
  IF ~endIndex.nan /\ endIndex.n < length THEN Some(intToString(endIndex.n + 1)) ELSE None
nextCursorOf(endIndex, length) ==
  IF ~endIndex.nan /\ endIndex.n < length THEN Some(intToString(endIndex.n)) ELSE None

\* the local pagination and the SUCCESS response
paginate_ExtraPage(filteredAssets, cursor) ==
  LET startIndex == startIndexOf(cursor)
      endIndex   == endIndexOf(startIndex)
  IN  [status       |-> 200,
       type         |-> "SUCCESS",
       resources    |-> slice(filteredAssets, startIndex, endIndex),
       continuation |-> nextCursorOf(endIndex, Len(filteredAssets) + ASSETS_PER_PAGE)]
paginate(filteredAssets, cursor) ==
  LET startIndex == startIndexOf(cursor)
      endIndex   == endIndexOf(startIndex)
  IN  [status       |-> 200,
       type         |-> "SUCCESS",
       resources    |-> slice(filteredAssets, startIndex, endIndex),
       continuation |-> nextCursorOf(endIndex, Len(filteredAssets))]

\* the whole handler, for a request body {searchText, cursor}
findResources(initialized, cache, searchText, cursor) ==
  IF notReady(initialized) THEN NOT_READY_RESPONSE
  ELSE paginate(filterAssets(cache, searchText), cursor)

\* the response of the catch block of the handler
INTERNAL_ERROR_RESPONSE ==
  [status |-> 500, type |-> "ERROR", resources |-> <<>>, continuation |-> None]

\* the shape of a request: a body {searchText, cursor} with string or
\* absent fields, no body at all (req.body undefined), or a body whose
\* searchText is a non-zero number
RequestKinds == {"ok", "body_undefined", "searchText_number"}

\* const { searchText, cursor } = req.body throws a TypeError when the body
\* is undefined, (searchText || '').trim() when searchText is a truthy
\* non-string
throwsTypeError_Never(kind) == FALSE
throwsTypeError(kind) == kind \in {"body_undefined", "searchText_number"}

\* the whole handler for any request: readiness check, then try / catch
handleRequest(initialized, cache, kind, searchText, cursor) ==
  IF notReady(initialized) THEN NOT_READY_RESPONSE
  ELSE IF throwsTypeError(kind) THEN INTERNAL_ERROR_RESPONSE
  ELSE paginate(filterAssets(cache, searchText), cursor)

\* the cache after the handler ran: filter() and slice() build new arrays
\* and leave assetCache (which filteredAssets may alias) as it was
cacheAfterQuery_Splice(cache, filtered, cursor) ==
  IF filtered = cache
  THEN SubSeq(cache, 1, sliceIndex(startIndexOf(cursor), Len(cache)))
       \o SubSeq(cache, sliceIndex(endIndexOf(startIndexOf(cursor)), Len(cache)) + 1, Len(cache))
  ELSE cache
cacheAfterQuery(cache, filtered, cursor) == cache

\* the readiness flag after the handler ran: the handler only tests it
readyAfterQuery_Reset(initialized) == FALSE
readyAfterQuery(initialized) == initialized

\* the upstream listing calls after the handler ran: it makes none
callLogAfterQuery_Search(log, cursor) == Append(log, cursor)
callLogAfterQuery(log, cursor) == log

(* ------------------------------ requests ------------------------------ *)
SearchTexts ==
  {None,
   Some(<<>>),
   Some(<<" ", " ">>),
   Some(<<"c", "a", "t">>),
   Some(<<"c", "a", "t", " ", "i", "m", "a", "g", "e">>),
   Some(<<"c", "a", "t", " ", "d", "o", "g">>),
   Some(<<" ", "C", "A", "T", "\t", " ", "I", "m", "a", "g", "e", " ">>),
   Some(<<"x">>)}

Cursors ==
  {None,
   Some(<<>>),
   Some(<<"0">>),
   Some(<<"5", "0">>),
   Some(<<"1", "0", "0">>),
   Some(<<"1", "5", "0">>),
   Some(<<"-", "1", "0", "0">>),
   Some(<<"-", "5", "1">>),
   Some(<<"a", "b", "c">>),
   Some(<<"5", "x">>)}

\* longest chain of continuation-following requests that is recorded
MaxWalk == 4

(* ------------------------------- state -------------------------------- *)
VARIABLES
  total, npages,       \* the upstream dataset: number of records and of pages
  pc,                  \* position of updateAssetCache
  next_cursor,         \* local of updateAssetCache
  allResources,        \* local of updateAssetCache
  assetCache,          \* module-level cache
  cacheInitialized,    \* module-level readiness flag
  callLog,             \* cursors passed to the upstream listing call, in order
  failedAt,            \* page whose listing call failed, 0 if none
  starts,              \* times updateAssetCache was started
  cacheWrites,         \* assignments to assetCache
  readyWrites,         \* assignments to cacheInitialized
  lastReq,             \* body of the last /api/findResources request
  lastResp,            \* its response
  filteredAssets,      \* the handler's filteredAssets for that request
  walk,                \* the client's chain of pages: absent cursor first,
                       \* then each returned continuation
  phase,               \* CloudinarySearch component: created, mounted, unmounted
  state,               \* its useState values: assets, searchText, loading,
                       \* hasMore, continuation
  searchTimeoutRef,    \* searchTimeoutRef.current, 0 when undefined
  timers,              \* pending setTimeout timers: [id, value]
  timerCount,          \* timers created so far (the id of the last one)
  issued,              \* fetch requests sent so far, in order: [query, cursor]
  arrived              \* indices of the requests whose response was handled

vars == <<total, npages, pc, next_cursor, allResources, assetCache,
          cacheInitialized, callLog, failedAt, starts, cacheWrites,
          readyWrites, lastReq, lastResp, filteredAssets, walk,
          phase, state, searchTimeoutRef, timers, timerCount, issued, arrived>>

upstreamVars == <<total, npages>>
ingestVars == <<pc, next_cursor, allResources, assetCache, cacheInitialized,
                callLog, failedAt, starts, cacheWrites, readyWrites>>
queryVars == <<lastReq, lastResp, filteredAssets, walk>>
clientVars == <<phase, state, searchTimeoutRef, timers, timerCount, issued, arrived>>

\* the useState initial values of CloudinarySearch
INITIAL_STATE ==
  [assets |-> <<>>, searchText |-> <<>>, loading |-> FALSE, hasMore |-> TRUE,
   continuation |-> None]

\* the component before its mount effect ran
ClientCreated ==
  /\ phase = "created"
  /\ state = INITIAL_STATE
  /\ searchTimeoutRef = 0
  /\ timers = {}
  /\ timerCount = 0
  /\ issued = <<>>
  /\ arrived = {}

NoWalk ==
  [active |-> FALSE, searchText |-> None, cursors |-> <<>>, sizes |-> <<>>,
   pages |-> <<>>, next |-> None]

Init ==
  /\ \E d \in Datasets : total = d[1] /\ npages = d[2]
  /\ pc = "not_started"
  /\ next_cursor = None
  /\ allResources = <<>>
  /\ assetCache = <<>>
  /\ cacheInitialized = FALSE
  /\ callLog = <<>>
  /\ failedAt = 0
  /\ starts = 0
  /\ cacheWrites = 0
  /\ readyWrites = 0
  /\ lastReq = None
  /\ lastResp = None
  /\ filteredAssets = <<>>
  /\ walk = NoWalk
  /\ ClientCreated

(* --------------------------- updateAssetCache ------------------------- *)
\* allResources.push(...mappedResources)
accumulate_Replace(all, mappedResources) == mappedResources
accumulate(all, mappedResources) == all \o mappedResources

\* while (next_cursor)
loopContinues_Never(cursor) == FALSE
loopContinues(cursor) == TruthyStr(cursor)

\* whether the iteration that received `cursor` goes on to the two
\* assignments after the loop (assetCache = allResources; cacheInitialized = true)
installs_EveryPage(cursor) == TRUE
installs(cursor) == ~loopContinues(cursor)

\* the cache after the catch block: it assigns cacheInitialized only, the
\* records accumulated in allResources are dropped
cacheAfterFailure_Partial(cache, all) == all
cacheAfterFailure(cache, all) == cache

\* (variant: updateAssetCache is started again after it finished, as a
\* periodic refresh would)
Listen_Again ==
  /\ pc \in {"not_started", "done"}
  /\ starts < 2
  /\ pc' = "awaiting"
  /\ next_cursor' = None
  /\ allResources' = <<>>
  /\ callLog' = Append(callLog, None)
  /\ starts' = starts + 1
  /\ UNCHANGED <<assetCache, cacheInitialized, failedAt, cacheWrites, readyWrites>>
  /\ UNCHANGED upstreamVars
  /\ UNCHANGED clientVars
  /\ UNCHANGED queryVars

\* app.listen callback: updateAssetCache() runs up to its first await
Listen ==
  /\ pc = "not_started"
  /\ pc' = "awaiting"
  /\ next_cursor' = None
  /\ allResources' = <<>>
  /\ callLog' = Append(callLog, None)
  /\ starts' = starts + 1
  /\ UNCHANGED <<assetCache, cacheInitialized, failedAt, cacheWrites, readyWrites>>
  /\ UNCHANGED upstreamVars
  /\ UNCHANGED clientVars
  /\ UNCHANGED queryVars

\* (variant: the second listing call is made without the cursor the first
\* one returned)
PageArrives_ForgetsCursor ==
  /\ pc = "awaiting"
  /\ UNCHANGED <<failedAt, starts>>
  /\ UNCHANGED upstreamVars
  /\ UNCHANGED clientVars
  /\ UNCHANGED queryVars
  /\ LET result == listPage(total, npages, next_cursor)
         all    == accumulate(allResources, mapResources(result.resources))
         cursor == result.next_cursor
         passed == IF Len(callLog) = 1 THEN None ELSE cursor
     IN  /\ allResources' = all
         /\ next_cursor' = passed
         /\ pc' = IF loopContinues(cursor) THEN "awaiting" ELSE "done"
         /\ callLog' = IF loopContinues(cursor) THEN Append(callLog, passed) ELSE callLog
         /\ assetCache' = IF installs(cursor) THEN all ELSE assetCache
         /\ cacheInitialized' = IF installs(cursor) THEN TRUE ELSE cacheInitialized
         /\ cacheWrites' = IF installs(cursor) THEN cacheWrites + 1 ELSE cacheWrites
         /\ readyWrites' = IF installs(cursor) THEN readyWrites + 1 ELSE readyWrites

\* the awaited listing call resolves: one iteration of the do-while, then
\* either the next call or the install
PageArrives ==
  /\ pc = "awaiting"
  /\ UNCHANGED <<failedAt, starts>>
  /\ UNCHANGED upstreamVars
  /\ UNCHANGED clientVars
  /\ UNCHANGED queryVars
  /\ LET result == listPage(total, npages, next_cursor)
         all    == accumulate(allResources, mapResources(result.resources))
         cursor == result.next_cursor
     IN  /\ allResources' = all
         /\ next_cursor' = cursor
         /\ pc' = IF loopContinues(cursor) THEN "awaiting" ELSE "done"
         /\ callLog' = IF loopContinues(cursor) THEN Append(callLog, cursor) ELSE callLog
         /\ assetCache' = IF installs(cursor) THEN all ELSE assetCache
         /\ cacheInitialized' = IF installs(cursor) THEN TRUE ELSE cacheInitialized
         /\ cacheWrites' = IF installs(cursor) THEN cacheWrites + 1 ELSE cacheWrites
         /\ readyWrites' = IF installs(cursor) THEN readyWrites + 1 ELSE readyWrites

\* (variant: the catch block only logs and leaves the flag as it is)
PageFails_StaysUnready ==
  /\ pc = "awaiting"
  /\ pc' = "done"
  /\ failedAt' = PageOfCursor(next_cursor)
  /\ UNCHANGED <<cacheInitialized, readyWrites>>
  /\ UNCHANGED <<next_cursor, allResources, assetCache, callLog, starts, cacheWrites>>
  /\ UNCHANGED upstreamVars
  /\ UNCHANGED clientVars
  /\ UNCHANGED queryVars

\* the awaited listing call rejects: the catch block
PageFails ==
  /\ pc = "awaiting"
  /\ pc' = "done"
  /\ failedAt' = PageOfCursor(next_cursor)
  /\ cacheInitialized' = TRUE
  /\ readyWrites' = readyWrites + 1
  /\ assetCache' = cacheAfterFailure(assetCache, allResources)
  /\ UNCHANGED <<next_cursor, allResources, callLog, starts, cacheWrites>>
  /\ UNCHANGED upstreamVars
  /\ UNCHANGED clientVars
  /\ UNCHANGED queryVars

(* ------------------------------- queries ------------------------------ *)
\* the chain of pages a client holds after this request: a request with an
\* absent cursor starts a chain, a request passing the chain's last
\* continuation with the same searchText extends it
walkAfter(w, searchText, cursor, resp) ==
  IF resp.type # "SUCCESS" THEN NoWalk
  ELSE IF cursor = None
  THEN [active |-> TRUE, searchText |-> searchText, cursors |-> <<cursor>>,
        sizes |-> <<Len(resp.resources)>>, pages |-> resp.resources,
        next |-> resp.continuation]
  ELSE IF /\ w.active
          /\ w.searchText = searchText
          /\ IsSome(w.next)
          /\ cursor = w.next
          /\ Len(w.cursors) < MaxWalk
  THEN [active |-> TRUE, searchText |-> searchText,
        cursors |-> Append(w.cursors, cursor),
        sizes |-> Append(w.sizes, Len(resp.resources)),
        pages |-> w.pages \o resp.resources,
        next |-> resp.continuation]
  ELSE NoWalk

\* (variant: the server keeps the position of the last response and a
\* request without cursor resumes from it)
Query_Stateful ==
  /\ \E searchText \in SearchTexts :
       LET filtered == filterAssets(assetCache, searchText)
       IN  \E cursor \in Cursors \cup (IF IsSome(lastResp) THEN {Get(lastResp).continuation} ELSE {}) :
           \* (a malformed body is sent with no other field)
           \E kind \in (IF searchText = None /\ cursor = None THEN RequestKinds ELSE {"ok"}) :
             LET ran  == ~notReady(cacheInitialized) /\ ~throwsTypeError(kind)
                 resp == IF notReady(cacheInitialized) THEN NOT_READY_RESPONSE
                         ELSE IF throwsTypeError(kind) THEN INTERNAL_ERROR_RESPONSE
                         ELSE paginate(filtered,
                                       IF cursor = None /\ IsSome(lastResp)
                                       THEN Get(lastResp).continuation ELSE cursor)
             IN  /\ lastReq' = Some([kind |-> kind, searchText |-> searchText, cursor |-> cursor])
                 /\ lastResp' = Some(resp)
                 /\ filteredAssets' = IF ran THEN filtered ELSE <<>>
                 /\ walk' = walkAfter(walk, searchText, cursor, resp)
                 /\ assetCache' = IF ran THEN cacheAfterQuery(assetCache, filtered, cursor)
                                  ELSE assetCache
                 /\ callLog' = IF ran THEN callLogAfterQuery(callLog, cursor) ELSE callLog
                 /\ cacheInitialized' = IF ran THEN readyAfterQuery(cacheInitialized)
                                        ELSE cacheInitialized
  /\ UNCHANGED upstreamVars
  /\ UNCHANGED clientVars
  /\ UNCHANGED <<pc, next_cursor, allResources, failedAt, starts, cacheWrites, readyWrites>>

\* one POST /api/findResources, handled without suspension
Query ==
  /\ \E searchText \in SearchTexts :
       LET filtered == filterAssets(assetCache, searchText)
       IN  \E cursor \in Cursors \cup (IF IsSome(lastResp) THEN {Get(lastResp).continuation} ELSE {}) :
           \* (a malformed body is sent with no other field)
           \E kind \in (IF searchText = None /\ cursor = None THEN RequestKinds ELSE {"ok"}) :
             LET ran  == ~notReady(cacheInitialized) /\ ~throwsTypeError(kind)
                 resp == IF notReady(cacheInitialized) THEN NOT_READY_RESPONSE
                         ELSE IF throwsTypeError(kind) THEN INTERNAL_ERROR_RESPONSE
                         ELSE paginate(filtered, cursor)
             IN  /\ lastReq' = Some([kind |-> kind, searchText |-> searchText, cursor |-> cursor])
                 /\ lastResp' = Some(resp)
                 /\ filteredAssets' = IF ran THEN filtered ELSE <<>>
                 /\ walk' = walkAfter(walk, searchText, cursor, resp)
                 /\ assetCache' = IF ran THEN cacheAfterQuery(assetCache, filtered, cursor)
                                  ELSE assetCache
                 /\ callLog' = IF ran THEN callLogAfterQuery(callLog, cursor) ELSE callLog
                 /\ cacheInitialized' = IF ran THEN readyAfterQuery(cacheInitialized)
                                        ELSE cacheInitialized
  /\ UNCHANGED upstreamVars
  /\ UNCHANGED clientVars
  /\ UNCHANGED <<pc, next_cursor, allResources, failedAt, starts, cacheWrites, readyWrites>>

Next == Listen \/ PageArrives \/ PageFails \/ Query

Spec == Init /\ [][Next]_vars

\* the event loop runs the listen callback once the server listens, and the
\* upstream answers every listing call, with a page or with an error
FairSpec == Spec /\ WF_vars(Listen) /\ WF_vars(PageFails \/ PageArrives)

(* ================= the client: CloudinarySearch (app.tsx) ============= *)
\* input changes that are followed
MaxTyped == 2

\* fetch requests that are followed
MaxRequests == 3

\* the values typed into the search field
TypedValues == {<<"c", "a", "t">>, <<"d", "o", "g">>}

\* the server variables
serverVars == <<total, npages, pc, next_cursor, allResources, assetCache,
                cacheInitialized, callLog, failedAt, starts, cacheWrites, readyWrites>>

\* the server the client talks to: updateAssetCache has installed the
\* LargeSize records, or its first listing call is still awaited
ServerReady ==
  /\ total = LargeSize
  /\ npages = MaxPages
  /\ pc = "done"
  /\ next_cursor = None
  /\ allResources = mapResources([i \in 1..LargeSize |-> RawAsset(i)])
  /\ assetCache = allResources
  /\ cacheInitialized = TRUE
  /\ callLog = [k \in 1..MaxPages |-> IF k = 1 THEN None ELSE Some(CursorOfPage(k))]
  /\ failedAt = 0
  /\ starts = 1
  /\ cacheWrites = 1
  /\ readyWrites = 1

ServerIngesting ==
  /\ total = SmallSize
  /\ npages = 1
  /\ pc = "awaiting"
  /\ next_cursor = None
  /\ allResources = <<>>
  /\ assetCache = <<>>
  /\ cacheInitialized = FALSE
  /\ callLog = <<None>>
  /\ failedAt = 0
  /\ starts = 1
  /\ cacheWrites = 0
  /\ readyWrites = 0

ClientInit ==
  /\ ServerReady \/ ServerIngesting
  /\ lastReq = None
  /\ lastResp = None
  /\ filteredAssets = <<>>
  /\ walk = NoWalk
  /\ ClientCreated

\* the requests whose response has not been handled yet
InFlight == {i \in 1..Len(issued) : i \notin arrived}

\* the body of a request: JSON.stringify({ searchText: query, cursor })
\* leaves an undefined cursor out
bodyOf(request) == [kind |-> "ok", searchText |-> Some(request.query), cursor |-> request.cursor]

\* searchAssets up to its await: if (!cursor) { setLoading(true);
\* setAssets([]); setHasMore(true); setContinuation(null) }
searchAssetsStart(st, cursor) ==
  IF ~TruthyStr(cursor)
  THEN [st EXCEPT !.loading = TRUE, !.assets = <<>>, !.hasMore = TRUE, !.continuation = None]
  ELSE st

\* response.ok: a status in 200..299
responseOk(resp) == resp.status >= 200 /\ resp.status <= 299

\* searchAssets after its await: the SUCCESS branch, the error branches and
\* the finally block
searchAssetsResume(st, cursor, resp) ==
  IF responseOk(resp) /\ resp.type = "SUCCESS"
  THEN [st EXCEPT !.assets = IF TruthyStr(cursor) THEN st.assets \o resp.resources
                             ELSE resp.resources,
                  !.hasMore = TruthyStr(resp.continuation),
                  !.continuation = resp.continuation,
                  !.loading = FALSE]
  ELSE [st EXCEPT !.loading = FALSE]

\* clearTimeout(id)
clearTimeout_Noop(pending, id) == pending
clearTimeout(pending, id) == {t \in pending : t.id # id}

\* useEffect(() => { searchAssets(''); ... }, [])
Mount ==
  /\ phase = "created"
  /\ phase' = "mounted"
  /\ state' = searchAssetsStart(state, None)
  /\ issued' = Append(issued, [query |-> <<>>, cursor |-> None])
  /\ UNCHANGED <<searchTimeoutRef, timers, timerCount, arrived>>
  /\ UNCHANGED serverVars
  /\ UNCHANGED queryVars

\* handleInputChange(value)
HandleInputChange ==
  /\ phase = "mounted"
  /\ timerCount < MaxTyped
  /\ \E value \in TypedValues :
       /\ state' = [state EXCEPT !.searchText = value]
       /\ timers' = (IF searchTimeoutRef # 0 THEN clearTimeout(timers, searchTimeoutRef)
                     ELSE timers)
                    \cup {[id |-> timerCount + 1, value |-> value]}
  /\ searchTimeoutRef' = timerCount + 1
  /\ timerCount' = timerCount + 1
  /\ UNCHANGED <<phase, issued, arrived>>
  /\ UNCHANGED serverVars
  /\ UNCHANGED queryVars

\* the callback of setTimeout(() => { searchAssets(value) }, 500)
TimerFires ==
  /\ Len(issued) < MaxRequests
  /\ \E t \in timers :
       /\ timers' = timers \ {t}
       /\ state' = IF phase = "mounted" THEN searchAssetsStart(state, None) ELSE state
       /\ issued' = Append(issued, [query |-> t.value, cursor |-> None])
  /\ UNCHANGED <<phase, searchTimeoutRef, timerCount, arrived>>
  /\ UNCHANGED serverVars
  /\ UNCHANGED queryVars

\* a click on the load-more button (rendered when !loading && hasMore &&
\* assets.length > 0): loadMore
LoadMore ==
  /\ phase = "mounted"
  /\ Len(issued) < MaxRequests
  /\ ~state.loading /\ state.hasMore /\ Len(state.assets) > 0
  /\ ~state.loading /\ state.hasMore /\ TruthyStr(state.continuation)
  /\ state' = searchAssetsStart(state, state.continuation)
  /\ issued' = Append(issued, [query |-> state.searchText, cursor |-> state.continuation])
  /\ UNCHANGED <<phase, searchTimeoutRef, timers, timerCount, arrived>>
  /\ UNCHANGED serverVars
  /\ UNCHANGED queryVars

\* the server handles a request in flight and searchAssets resumes with the
\* response; responses come back in any order
ResponseArrives ==
  /\ \E i \in InFlight :
       LET body == bodyOf(issued[i])
           resp == handleRequest(cacheInitialized, assetCache, body.kind, body.searchText,
                                 body.cursor)
       IN  /\ arrived' = arrived \cup {i}
           /\ state' = IF phase = "mounted"
                       THEN searchAssetsResume(state, issued[i].cursor, resp) ELSE state
           /\ lastReq' = Some(body)
           /\ lastResp' = Some(resp)
           /\ filteredAssets' = IF notReady(cacheInitialized) THEN <<>>
                                ELSE filterAssets(assetCache, body.searchText)
           /\ walk' = walkAfter(walk, body.searchText, body.cursor, resp)
  /\ UNCHANGED <<phase, searchTimeoutRef, timers, timerCount, issued>>
  /\ UNCHANGED serverVars

\* the cleanup of the mount effect
Unmount ==
  /\ phase = "mounted"
  /\ phase' = "unmounted"
  /\ timers' = IF searchTimeoutRef # 0 THEN clearTimeout(timers, searchTimeoutRef) ELSE timers
  /\ UNCHANGED <<state, searchTimeoutRef, timerCount, issued, arrived>>
  /\ UNCHANGED serverVars
  /\ UNCHANGED queryVars

ClientNext ==
  Mount \/ HandleInputChange \/ TimerFires \/ LoadMore \/ ResponseArrives \/ Unmount

ClientSpec == ClientInit /\ [][ClientNext]_vars

(* ============================ properties ============================== *)
\* the upstream records in upstream order (page 1, then page 2, ...)
AllRecords == [i \in 1..total |-> RawAsset(i)]

\* the identifier of an upstream record: its asset id, else its public id
InputId(raw) ==
  IF raw.asset_id # None /\ raw.asset_id # Some(<<>>) THEN raw.asset_id[1] ELSE raw.public_id

\* the request and the response last handled
Req == Get(lastReq)
Resp == Get(lastResp)
Answered == IsSome(lastResp)
Succeeded == Answered /\ Resp.type = "SUCCESS"

\* t occurs in s
IsSubstring(t, s) ==
  \E a \in 0..(Len(s) - Len(t)) : SubSeq(s, a + 1, a + Len(t)) = t

(* ---- C1 ---- *)
\* C1: when every listing call succeeded, the installed snapshot has one
\* AssetView per upstream record, in upstream order, and every input
\* identifier occurs exactly once.
C1_Completeness ==
  (pc = "done" /\ failedAt = 0) =>
     /\ Len(assetCache) = total
     /\ \A i \in 1..total : assetCache[i].id = InputId(AllRecords[i])
     /\ \A i \in 1..total :
          Cardinality({j \in 1..Len(assetCache) : assetCache[j].id = InputId(AllRecords[i])}) = 1

C1_Witness ==
  /\ pc = "done"
  /\ failedAt = 0
  /\ npages > 1
  /\ Len(callLog) = npages
  /\ Len(assetCache) = LargeSize

(* ---- C2 ---- *)
\* the snapshot that ingestion installs in the end: every record when no
\* listing call failed, nothing otherwise
FinalSnapshot == IF failedAt # 0 THEN <<>> ELSE mapResources(AllRecords)

\* C2: every response is the not-ready response or is computed from the
\* final installed snapshot; none is computed from the records of only some
\* of the pages.
C2_NoPartialSnapshot ==
  Answered =>
     \/ Resp = NOT_READY_RESPONSE
     \/ /\ pc = "done"
        /\ Resp = handleRequest(TRUE, FinalSnapshot, Req.kind, Req.searchText, Req.cursor)

\* a query was answered while some but not all pages were accumulated
C2_Witness ==
  /\ pc = "awaiting"
  /\ allResources # <<>>
  /\ Len(allResources) < total
  /\ Answered
  /\ Resp = NOT_READY_RESPONSE

(* ---- C3 ---- *)
\* C3: while cacheInitialized is false every query gets the 503 response
\* with type ERROR, no resources and a null continuation, never SUCCESS.
C3_NotReadyGating ==
  ~cacheInitialized =>
     /\ Answered =>
          /\ Resp.status = 503
          /\ Resp.type = "ERROR"
          /\ Resp.resources = <<>>
          /\ Resp.continuation = None
     /\ \A searchText \in SearchTexts, cursor \in Cursors :
          findResources(cacheInitialized, assetCache, searchText, cursor).type = "ERROR"

C3_Witness ==
  /\ ~cacheInitialized
  /\ pc = "awaiting"
  /\ Answered
  /\ Resp.status = 503

(* ---- C4 ---- *)
\* C4: after a listing call failed on some page k, the snapshot is empty,
\* the service is ready, and every query (a body with string or absent
\* fields) handled from then on is answered SUCCESS with no resources and a
\* null continuation.
C4_FailureContainment ==
  (pc = "done" /\ failedAt # 0) =>
     /\ assetCache = <<>>
     /\ cacheInitialized
     /\ (Answered /\ Req.kind = "ok" /\ Resp # NOT_READY_RESPONSE) =>
          /\ Resp.type = "SUCCESS"
          /\ Resp.resources = <<>>
          /\ Resp.continuation = None

(* ---- C5 ---- *)
\* a cursor that does not parse to a number, or parses to an offset below
\* zero or beyond the end of the filtered sequence
MalformedCursor(cursor, length) ==
  /\ IsSome(cursor)
  /\ Get(cursor) # <<>>
  /\ LET x == parseInt(Get(cursor))
     IN  x.nan \/ x.n < 0 \/ x.n > length

\* C5: a request with a non-numeric or out-of-range cursor gets the same
\* page and continuation as the request with an absent cursor and the same
\* searchText.
C5_MalformedCursorIsOffsetZero ==
  (Succeeded /\ MalformedCursor(Req.cursor, Len(filteredAssets))) =>
     Resp = findResources(cacheInitialized, assetCache, Req.searchText, None)

(* ---- C6 ---- *)
\* the chain is complete: its last response carried a null continuation
WalkComplete == walk.active /\ walk.next = None

\* C6: the pages of a complete chain (absent cursor, then each returned
\* continuation) concatenate to the filtered sequence, each element once;
\* a filtered sequence of length 120 comes in pages of 50, 50 and 20 with
\* the cursors absent, "50", "100".
C6_PaginationRoundTrip ==
  WalkComplete =>
     /\ walk.pages = filterAssets(assetCache, walk.searchText)
     /\ \A i, j \in 1..Len(walk.pages) : walk.pages[i].id = walk.pages[j].id => i = j
     /\ Len(walk.pages) = 120 =>
          /\ walk.sizes = <<50, 50, 20>>
          /\ walk.cursors = <<None, Some(<<"5", "0">>), Some(<<"1", "0", "0">>)>>

C6_Witness ==
  /\ WalkComplete
  /\ Len(walk.pages) = 120
  /\ walk.sizes = <<50, 50, 20>>

(* ---- C7 ---- *)
\* the cursor is the decimal string of an offset c >= 0
ValidOffsetCursor(cursor) ==
  /\ IsSome(cursor)
  /\ LET x == parseInt(Get(cursor))
     IN  ~x.nan /\ x.n >= 0 /\ Get(cursor) = intToString(x.n)

\* C7: for the decimal cursor of an offset c >= 0 the page is the elements
\* of the filtered sequence at the indices c .. c+49 that exist, and the
\* continuation is the decimal string of c+50 when c+50 is below the
\* filtered length and null otherwise.
C7_PageAndContinuation ==
  (Succeeded /\ ValidOffsetCursor(Req.cursor)) =>
     LET c   == parseInt(Get(Req.cursor)).n
         len == Len(filteredAssets)
         hi  == IF c + 50 < len THEN c + 50 ELSE len
     IN  /\ Len(Resp.resources) = (IF hi > c THEN hi - c ELSE 0)
         /\ \A i \in 1..Len(Resp.resources) : Resp.resources[i] = filteredAssets[c + i]
         /\ Resp.continuation = (IF c + 50 < len THEN Some(intToString(c + 50)) ELSE None)

C7_Witness ==
  /\ Succeeded
  /\ Req.cursor = Some(<<"5", "0">>)
  /\ Len(Resp.resources) = 50
  /\ Resp.continuation = Some(<<"1", "0", "0">>)
  /\ Resp.resources[1] = filteredAssets[51]

(* ---- C8 ---- *)
\* the term list of a request: empty for an absent or blank searchText
TermsOf(searchText) ==
  IF queryOf(searchText) = <<>> THEN <<>> ELSE searchTermsOf(queryOf(searchText))

InFiltered(asset) == \E j \in 1..Len(filteredAssets) : filteredAssets[j].id = asset.id

CAT_PHOTO_SEARCHABLE == <<"c", "a", "t", "_", "p", "h", "o", "t", "o", " ", "t", "a", "g", "1", " ", "t", "a", "g", "2", " ", "i", "m", "a", "g", "e", " ", "j", "p", "g">>

\* C8: an AssetView is in the filtered sequence iff every term of the
\* request is a substring of its searchable field (all of them for an empty
\* term list); "cat_photo tag1 tag2 image jpg" matches "cat image" and not
\* "cat dog".
C8_AndSearch ==
  Succeeded =>
     /\ \A i \in 1..Len(assetCache) :
          InFiltered(assetCache[i]) <=>
            (\A k \in 1..Len(TermsOf(Req.searchText)) :
               IsSubstring(TermsOf(Req.searchText)[k], assetCache[i].searchable))
     /\ \A i \in 1..Len(assetCache) :
          assetCache[i].searchable = CAT_PHOTO_SEARCHABLE =>
            /\ Req.searchText = Some(<<"c", "a", "t", " ", "i", "m", "a", "g", "e">>) => InFiltered(assetCache[i])
            /\ Req.searchText = Some(<<"c", "a", "t", " ", "d", "o", "g">>) => ~InFiltered(assetCache[i])

C8_Witness ==
  /\ Succeeded
  /\ Req.searchText = Some(<<"c", "a", "t", " ", "d", "o", "g">>)
  /\ assetCache # <<>>
  /\ assetCache[1].searchable = CAT_PHOTO_SEARCHABLE
  /\ ~InFiltered(assetCache[1])
  /\ filteredAssets # <<>>

(* ---- C9 ---- *)
\* C9: every AssetView built from a raw record with an audio format has
\* the audio MIME string of the table as its contentType.
C9_AudioContentType ==
  \A i \in 1..Len(assetCache) :
     (/\ AllRecords[i].resource_type = "raw"
      /\ formatLowerOf(AllRecords[i].format) \in DOMAIN typesAudio)
     => /\ assetCache[i].type = "AUDIO"
        /\ assetCache[i].contentType = typesAudio[formatLowerOf(AllRecords[i].format)]

(* ---- C10 ---- *)
\* C10: updateAssetCache is started once, assetCache is assigned at most
\* once, cacheInitialized is set once, and at most one run of
\* updateAssetCache (the only writer) exists.
C10_SingleIngestion ==
  /\ starts <= 1
  /\ cacheWrites <= 1
  /\ readyWrites <= 1
  /\ (pc # "not_started") <=> (starts = 1)
  /\ (pc = "done") <=> (readyWrites = 1)
  /\ cacheInitialized <=> (readyWrites = 1)
  /\ (cacheWrites = 1) => (pc = "done" /\ failedAt = 0)
  /\ (pc = "done" /\ failedAt = 0) => (cacheWrites = 1)

C10_Witness ==
  /\ pc = "done"
  /\ npages > 1
  /\ starts = 1
  /\ cacheWrites = 1
  /\ readyWrites = 1
  /\ Answered

(* ---- C11 ---- *)
\* the ingestion state, read off the program's own variables
IngestionState ==
  IF ~cacheInitialized THEN (IF starts = 0 THEN "NOT_STARTED" ELSE "RUNNING")
  ELSE IF cacheWrites > 0 THEN "READY" ELSE "READY_EMPTY"

IngestionTransitions ==
  {<<"NOT_STARTED", "RUNNING">>, <<"RUNNING", "READY">>, <<"RUNNING", "READY_EMPTY">>}

\* C11: the ingestion state changes only NOT_STARTED -> RUNNING,
\* RUNNING -> READY (every page listed, no error) and RUNNING -> READY_EMPTY
\* (a listing call failed); a finished updateAssetCache has left RUNNING,
\* and cacheInitialized never goes back to false.
C11_IngestionStateMachine ==
  /\ [](pc = "done" => IngestionState \in {"READY", "READY_EMPTY"})
  /\ [][/\ IngestionState' # IngestionState =>
              <<IngestionState, IngestionState'>> \in IngestionTransitions
        /\ (IngestionState # "READY" /\ IngestionState' = "READY") =>
              (failedAt' = 0 /\ Len(callLog') = npages /\ Len(assetCache') = total)
        /\ (IngestionState # "READY_EMPTY" /\ IngestionState' = "READY_EMPTY") =>
              (failedAt' # 0 /\ assetCache' = <<>>)
        /\ cacheInitialized => cacheInitialized']_vars

C11_Witness ==
  /\ IngestionState = "READY_EMPTY"
  /\ failedAt = 2
  /\ allResources # <<>>

(* ---- C12 ---- *)
\* C12: when the upstream answers every listing call, the service becomes
\* ready, with or without a failed call, and no request handled after that
\* gets the not-ready response.
C12_EventuallyReady ==
  /\ <>cacheInitialized
  /\ [][(cacheInitialized /\ lastReq' # lastReq) => Get(lastResp').status # 503]_vars

C12_Witness ==
  /\ cacheInitialized
  /\ failedAt # 0
  /\ Answered
  /\ Resp.status = 200

(* ---- C13 ---- *)
\* C13: once the service is ready, no step changes the contents or the
\* order of assetCache.
C13_ReadySnapshotImmutable ==
  [][cacheInitialized => assetCache' = assetCache]_vars

C13_Witness ==
  /\ cacheInitialized
  /\ Succeeded
  /\ Len(Resp.resources) = ASSETS_PER_PAGE
  /\ walk.active
  /\ Len(walk.cursors) > 1
  /\ Len(assetCache) = total

(* ---- C14 ---- *)
\* C14: a listing call is issued only by a step of updateAssetCache; a step
\* that handles a request issues none, before or after readiness, and
\* there is one call per page at most.
C14_OnlyIngestionCallsUpstream ==
  /\ [](Len(callLog) <= npages)
  /\ [][/\ callLog' # callLog => (pc \in {"not_started", "awaiting"} /\ UNCHANGED queryVars)
        /\ lastReq' # lastReq => callLog' = callLog]_vars

C14_Witness ==
  /\ Len(callLog) = npages
  /\ npages > 1
  /\ Succeeded
  /\ Resp.resources # <<>>

(* ---- C15 ---- *)
AudioFormatNames ==
  {<<"m", "p", "3">>, <<"w", "a", "v">>, <<"o", "g", "g">>, <<"m", "4", "a">>, <<"f", "l", "a", "c">>, <<"a", "a", "c">>}

\* the lower-cased format token of a record, empty when absent
LowerFormat(raw) == IF raw.format = None THEN <<>> ELSE toLowerCase(raw.format[1])

\* the classification the ordered rules give
ExpectedType(raw) ==
  CASE raw.resource_type = "image" -> "IMAGE"
    [] raw.resource_type = "video" -> "VIDEO"
    [] raw.resource_type = "raw" /\ LowerFormat(raw) \in AudioFormatNames -> "AUDIO"
    [] OTHER -> "FILE"

ExpectedDimension(rawValue, default) ==
  IF rawValue = None THEN default
  ELSE IF rawValue[1] <= 0 THEN default ELSE rawValue[1]

\* C16: every AssetView of the snapshot has positive width and height:
\* 400 and 300 when the raw value is absent, zero or negative, the raw
\* value otherwise.
C16_PositiveDimensions ==
  \A i \in 1..Len(assetCache) :
     /\ assetCache[i].width > 0
     /\ assetCache[i].height > 0
     /\ assetCache[i].width = ExpectedDimension(AllRecords[i].width, 400)
     /\ assetCache[i].height = ExpectedDimension(AllRecords[i].height, 300)

(* ---- C17 ---- *)
\* the searchable text as the composition rule states it, an absent tag
\* list contributing nothing
ExpectedSearchable(raw) ==
  toLowerCase(raw.public_id \o <<" ">>
              \o (IF raw.tags = None THEN <<>> ELSE joinSpace(raw.tags[1]))
              \o <<" ">> \o typeChars(ExpectedType(raw))
              \o <<" ">> \o (IF raw.format = None THEN <<>> ELSE raw.format[1]))

\* C17: searchable is the lower-cased, space-joined identifier, tags,
\* classification label and format and nothing else; with an absent tag
\* list the tags part is empty.
C17_SearchableComposition ==
  \A i \in 1..Len(assetCache) : assetCache[i].searchable = ExpectedSearchable(AllRecords[i])

(* ---- C18 ---- *)
\* a request was handled in this step and it was one that makes the
\* handler throw
BadRequestHandled == lastReq' # lastReq /\ Get(lastReq').kind # "ok"

\* C18: a request whose handling throws (no body, non-string searchText)
\* is answered with type ERROR, no resources and a null continuation; the
\* snapshot and the readiness flag stay as they were, and the next
\* well-formed request is answered SUCCESS.
C18_QueryFailureContained ==
  [][/\ BadRequestHandled =>
          /\ Get(lastResp').type = "ERROR"
          /\ Get(lastResp').resources = <<>>
          /\ Get(lastResp').continuation = None
          /\ Get(lastResp').status = (IF cacheInitialized THEN 500 ELSE 503)
          /\ assetCache' = assetCache
          /\ cacheInitialized' = cacheInitialized
     /\ (/\ Answered
         /\ Resp.status = 500
         /\ lastReq' # lastReq
         /\ Get(lastReq').kind = "ok") =>
          /\ Get(lastResp').type = "SUCCESS"
          /\ Get(lastResp') = findResources(TRUE, assetCache, Get(lastReq').searchText,
                                            Get(lastReq').cursor)]_vars

C18_Witness ==
  /\ Answered
  /\ Req.kind = "searchText_number"
  /\ Resp = INTERNAL_ERROR_RESPONSE
  /\ assetCache # <<>>
  /\ cacheInitialized

(* ---- C19 ---- *)
\* the (effective kind, format) pairs the builder hands to getContentType
EffectivePairs ==
  {<<classify(ResourceTypes[k], Formats[j]).assetResourceType, Formats[j]>> :
     k \in 1..Len(ResourceTypes), j \in 1..Len(Formats)}

\* the MIME string the image and video tables and the default give
ExpectedContentType(kind, format) ==
  LET f == IF format = None THEN <<>> ELSE toLowerCase(format[1])
  IN  IF kind = "image" /\ f \in DOMAIN typesImage THEN typesImage[f]
      ELSE IF kind = "video" /\ f \in DOMAIN typesVideo THEN typesVideo[f]
      ELSE "application/octet-stream"

LastSegment(id) ==
  LET slashes == {k \in 1..Len(id) : id[k] = "/"}
      last    == IF slashes = {} THEN 0
                 ELSE CHOOSE k \in slashes : \A m \in slashes : m <= k
  IN  SubSeq(id, last + 1, Len(id))

\* C20 as stated: name is the final segment of the identifier, also when
\* the identifier ends with '/' and that segment is empty.
C20_NameIsLastSegment ==
  \A i \in 1..Len(assetCache) : assetCache[i].name = LastSegment(AllRecords[i].public_id)

\* C20, amended: name is the final segment of the identifier, and the whole
\* identifier when it has no '/' or when it ends with '/' (empty final
\* segment).
C20_NameDerivation ==
  \A i \in 1..Len(assetCache) :
     LET id == AllRecords[i].public_id
     IN  assetCache[i].name = (IF LastSegment(id) = <<>> THEN id ELSE LastSegment(id))

C20_Witness ==
  /\ \E i \in 1..Len(assetCache) :
       /\ AllRecords[i].public_id = <<"d", "o", "c", "s", "/">>
       /\ assetCache[i].name = <<"d", "o", "c", "s", "/">>
  /\ \E i \in 1..Len(assetCache) :
       /\ AllRecords[i].public_id = <<"M", "u", "s", "i", "c", "/", "S", "o", "n", "g">>
       /\ assetCache[i].name = <<"S", "o", "n", "g">>
  /\ \E i \in 1..Len(assetCache) :
       /\ AllRecords[i].public_id = <<"c", "a", "t", "_", "p", "h", "o", "t", "o">>
       /\ assetCache[i].name = <<"c", "a", "t", "_", "p", "h", "o", "t", "o">>

(* ---- C21 ---- *)
\* what the display-URL capability returns for an identifier
IsDisplayUrlOf(u, public_id) ==
  /\ u.src = "cloudinary"
  /\ u.public_id = public_id

\* C21: an AssetView has the two placeholder images as thumbnail and
\* preview iff it is AUDIO; every other AssetView has a thumbnail and a
\* preview that the display-URL capability produced for its own identifier.
C21_AudioPlaceholders ==
  \A i \in 1..Len(assetCache) :
     LET a     == assetCache[i]
         audio == ExpectedType(AllRecords[i]) = "AUDIO"
     IN  /\ (a.thumbnail = AUDIO_THUMBNAIL) <=> audio
         /\ (a.preview = AUDIO_PREVIEW) <=> audio
         /\ ~audio =>
              /\ IsDisplayUrlOf(a.thumbnail, AllRecords[i].public_id)
              /\ IsDisplayUrlOf(a.preview, AllRecords[i].public_id)
              /\ a.thumbnail.options.resource_type = AllRecords[i].resource_type
              /\ a.preview.options.resource_type = AllRecords[i].resource_type

C21_Witness ==
  /\ \E i \in 1..Len(assetCache) :
       /\ assetCache[i].type = "AUDIO"
       /\ assetCache[i].thumbnail = AUDIO_THUMBNAIL
       /\ assetCache[i].preview = AUDIO_PREVIEW
  /\ \E i \in 1..Len(assetCache) :
       /\ assetCache[i].type = "VIDEO"
       /\ AllRecords[i].format = Some(<<"m", "p", "3">>)
       /\ IsDisplayUrlOf(assetCache[i].thumbnail, AllRecords[i].public_id)
  /\ \E i \in 1..Len(assetCache) :
       /\ assetCache[i].type = "FILE"
       /\ IsDisplayUrlOf(assetCache[i].preview, AllRecords[i].public_id)
  /\ \E i \in 1..Len(assetCache) :
       /\ assetCache[i].type = "IMAGE"
       /\ IsDisplayUrlOf(assetCache[i].preview, AllRecords[i].public_id)

(* ---- C22 ---- *)
\* the cursor the upstream returned to the k-th listing call
ReturnedCursor(k) == listPage(total, npages, callLog[k]).next_cursor

\* a step in which an awaited listing call resolved with a page
PageArrived ==
  /\ pc = "awaiting"
  /\ failedAt' = failedAt
  /\ UNCHANGED queryVars
  /\ <<pc, next_cursor, allResources, assetCache, callLog>>'
       # <<pc, next_cursor, allResources, assetCache, callLog>>

\* C22: the first listing call passes a null cursor, every later call
\* passes the cursor the call before it returned, a call follows a response
\* iff the response carried a non-null cursor, and the install happens only
\* after the response with the null cursor.
C22_CursorProtocol ==
  /\ [](/\ callLog # <<>> => callLog[1] = None
        /\ \A k \in 2..Len(callLog) :
             /\ callLog[k] # None
             /\ callLog[k] = ReturnedCursor(k - 1)
        /\ cacheWrites > 0 => ReturnedCursor(Len(callLog)) = None)
  /\ [][PageArrived =>
          LET returned == ReturnedCursor(Len(callLog))
          IN  /\ (Len(callLog') = Len(callLog) + 1) <=> (returned # None)
              /\ returned # None =>
                   /\ callLog' = Append(callLog, returned)
                   /\ assetCache' = assetCache
                   /\ ~cacheInitialized'
              /\ returned = None =>
                   /\ callLog' = callLog
                   /\ cacheWrites' = cacheWrites + 1
                   /\ assetCache' = allResources']_vars

C22_Witness ==
  /\ pc = "done"
  /\ failedAt = 0
  /\ cacheWrites = 1
  /\ callLog = <<None, Some(<<"p", "2">>), Some(<<"p", "3">>)>>
  /\ Len(assetCache) = total

(* ---- C23 ---- *)
\* C23: once a listing call has failed no further listing call is made,
\* the records accumulated from the earlier pages are never installed, and
\* no response carries any of them.
C23_AbortOnUpstreamError ==
  /\ [](failedAt # 0 =>
          /\ Len(callLog) = failedAt
          /\ assetCache = <<>>
          /\ Answered => Resp.resources = <<>>)
  /\ [][failedAt # 0 => (callLog' = callLog /\ assetCache' = <<>>)]_vars

C23_Witness ==
  /\ failedAt = 3
  /\ Len(allResources) > 0
  /\ Succeeded
  /\ Req.searchText = None
  /\ Req.cursor = None
  /\ Resp.resources = <<>>

(* ---- C24 ---- *)
\* (searchText, cursor) pairs asked again in every ready state
StablePairs ==
  {<<None, None>>,
   <<None, Some(<<"5", "0">>)>>,
   <<None, Some(<<"1", "0", "0">>)>>,
   <<Some(<<"c", "a", "t">>), None>>,
   <<Some(<<"c", "a", "t">>), Some(<<"5", "0">>)>>,
   <<Some(<<"x">>), Some(<<"-", "5", "1">>)>>}

RECURSIVE SumOf(_, _)
SumOf(sizes, k) == IF k = 0 THEN 0 ELSE sizes[k] + SumOf(sizes, k - 1)

\* the k-th page the client received along its chain
WalkPage(k) == SubSeq(walk.pages, SumOf(walk.sizes, k - 1) + 1, SumOf(walk.sizes, k))

\* C24: in every ready state, whatever requests were handled before, a
\* (searchText, cursor) pair gets the one response determined by the pair
\* and the ingested snapshot; the response last given is that response, and
\* every page received earlier along a chain of continuations is still the
\* page its cursor gives.
C24_StablePagination ==
  cacheInitialized =>
     /\ \A p \in StablePairs :
          handleRequest(cacheInitialized, assetCache, "ok", p[1], p[2])
            = handleRequest(TRUE, FinalSnapshot, "ok", p[1], p[2])
     /\ (Succeeded /\ Req.kind = "ok") =>
          Resp = handleRequest(cacheInitialized, assetCache, "ok", Req.searchText, Req.cursor)
     /\ walk.active =>
          \A k \in 1..Len(walk.cursors) :
             WalkPage(k) = handleRequest(cacheInitialized, assetCache, "ok",
                                         walk.searchText, walk.cursors[k]).resources

\* the offset 50 is used outside a chain, after other requests
C24_Witness ==
  /\ Succeeded
  /\ ~walk.active
  /\ Req.searchText = None
  /\ Req.cursor = Some(<<"5", "0">>)
  /\ Len(Resp.resources) = 50
  /\ Resp.resources[1] = assetCache[51]
  /\ Resp.continuation = Some(<<"1", "0", "0">>)

(* ---- C25 ---- *)
\* the elements of f from index i on occur in c from index j on, in order
RECURSIVE Embeds(_, _, _, _)
Embeds(f, i, c, j) ==
  IF i > Len(f) THEN TRUE
  ELSE IF j > Len(c) THEN FALSE
  ELSE IF f[i] = c[j] THEN Embeds(f, i + 1, c, j + 1)
  ELSE Embeds(f, i, c, j + 1)

IsSubsequence(f, c) == Embeds(f, 1, c, 1)

\* C25: the filtered sequence is a subsequence of the snapshot, and so is
\* every page and every concatenation of the pages of a chain: matching
\* AssetViews keep the relative order they have in the snapshot.
C25_FilterPreservesOrder ==
  Succeeded =>
     /\ IsSubsequence(filteredAssets, assetCache)
     /\ IsSubsequence(Resp.resources, filteredAssets)
     /\ walk.active => IsSubsequence(walk.pages, assetCache)

C25_Witness ==
  /\ Succeeded
  /\ Req.searchText = Some(<<"c", "a", "t">>)
  /\ Len(filteredAssets) > ASSETS_PER_PAGE
  /\ Len(filteredAssets) < Len(assetCache)
  /\ Len(Resp.resources) = ASSETS_PER_PAGE
  /\ filteredAssets[2] # assetCache[2]

(* ---- C26 ---- *)
\* the characters of a searchText, none when it is absent
TextOf(searchText) == IF searchText = None THEN <<>> ELSE searchText[1]

\* the maximal runs of non-whitespace characters of a text, as index pairs
RunsOf(text) ==
  {r \in (1..Len(text)) \X (1..Len(text)) :
     /\ r[1] <= r[2]
     /\ \A k \in r[1]..r[2] : text[k] \notin WhiteSpace
     /\ r[1] = 1 \/ text[r[1] - 1] \in WhiteSpace
     /\ r[2] = Len(text) \/ text[r[2] + 1] \in WhiteSpace}

\* the k-th run from the left
RunAt(text, k) ==
  CHOOSE r \in RunsOf(text) : Cardinality({q \in RunsOf(text) : q[1] < r[1]}) = k - 1

\* C26: the term list of a request is the lower-cased maximal
\* non-whitespace runs of its searchText, in order; it is empty for an
\* absent, empty or blank searchText, and then every AssetView matches; no
\* term is empty, and the letter case of the query does not matter.
C26_QueryNormalization ==
  Succeeded =>
     LET text  == TextOf(Req.searchText)
         terms == TermsOf(Req.searchText)
     IN  /\ Len(terms) = Cardinality(RunsOf(text))
         /\ \A k \in 1..Len(terms) :
              /\ terms[k] # <<>>
              /\ terms[k] = toLowerCase(SubSeq(text, RunAt(text, k)[1], RunAt(text, k)[2]))
         /\ RunsOf(text) = {} => filteredAssets = assetCache
         /\ filteredAssets = filterAssets(assetCache, Some(toLowerCase(text)))
         /\ Req.searchText = Some(<<" ", "C", "A", "T", "\t", " ", "I", "m", "a", "g", "e", " ">>) =>
              terms = <<<<"c", "a", "t">>, <<"i", "m", "a", "g", "e">>>>

C26_Witness ==
  /\ Succeeded
  /\ Req.searchText = Some(<<" ", "C", "A", "T", "\t", " ", "I", "m", "a", "g", "e", " ">>)
  /\ filteredAssets # <<>>
  /\ Len(filteredAssets) < Len(assetCache)
  /\ \A i \in 1..Len(filteredAssets) :
       /\ IsSubstring(<<"c", "a", "t">>, filteredAssets[i].searchable)
       /\ IsSubstring(<<"i", "m", "a", "g", "e">>, filteredAssets[i].searchable)

(* ---- C27 ---- *)
\* a step in which a request was handled
QueryHandled == queryVars' # queryVars

\* C27: a step that handles a request, whatever its outcome, changes
\* neither the snapshot nor the readiness flag nor anything of the state
\* of updateAssetCache.
C27_QueriesReadOnly ==
  [][QueryHandled =>
       /\ assetCache' = assetCache
       /\ cacheInitialized' = cacheInitialized
       /\ UNCHANGED <<pc, next_cursor, allResources, callLog, failedAt, starts,
                      cacheWrites, readyWrites>>]_vars

C27_Witness ==
  /\ Succeeded
  /\ Req.cursor = Some(<<"-", "1", "0", "0">>)
  /\ Len(Resp.resources) = ASSETS_PER_PAGE
  /\ cacheInitialized
  /\ pc = "done"
  /\ Len(assetCache) = LargeSize

(* ---- C28 ---- *)
\* C28: a SUCCESS response never carries more than 50 resources, whatever
\* the snapshot, the searchText and the cursor (numeric, negative,
\* non-numeric, empty or absent).
C28_BoundedPageSize ==
  /\ Succeeded => Len(Resp.resources) <= 50
  /\ cacheInitialized =>
       \A cursor \in Cursors :
          /\ Len(paginate(filteredAssets, cursor).resources) <= 50
          /\ Len(paginate(assetCache, cursor).resources) <= 50

C28_Witness ==
  /\ Succeeded
  /\ Req.cursor = Some(<<"-", "5", "1">>)
  /\ Len(filteredAssets) = LargeSize
  /\ Len(Resp.resources) = 50
  /\ Resp.resources[1] = filteredAssets[LargeSize - 50]

(* ---- C29 ---- *)
\* the cursor is absent or the decimal string of an integer, negative
\* values included
IntegerCursor(cursor) ==
  \/ cursor = None
  \/ /\ cursor # None
     /\ cursor[1] # <<>>
     /\ ~parseInt(cursor[1]).nan
     /\ cursor[1] = intToString(parseInt(cursor[1]).n)

\* the offset an integer cursor stands for
OffsetOf(cursor) == IF cursor = None THEN 0 ELSE parseInt(cursor[1]).n

\* C29: for an integer cursor, a response with a non-null continuation
\* carries exactly 50 resources, and the continuation is a non-negative
\* offset strictly greater than the offset of the request.
C29_ContinuationImpliesProgress ==
  (Succeeded /\ IntegerCursor(Req.cursor) /\ Resp.continuation # None) =>
     /\ Len(Resp.resources) = 50
     /\ ~parseInt(Resp.continuation[1]).nan
     /\ parseInt(Resp.continuation[1]).n >= 0
     /\ parseInt(Resp.continuation[1]).n > OffsetOf(Req.cursor)

(* ---- C30 ---- *)
\* the number of requests the claim gives for a filtered sequence of
\* length n: max(1, ceil(n / 50))
RequestsNeeded(n) == IF n = 0 THEN 1 ELSE (n + 49) \div 50

\* C30: a chain that starts with an absent cursor and passes each returned
\* continuation back gets the null continuation on request number
\* max(1, ceil(n / 50)) exactly, n being the length of the filtered
\* sequence: not before, and never later.
C30_PaginationTerminates ==
  walk.active =>
     LET n == Len(filterAssets(assetCache, walk.searchText))
     IN  /\ walk.next = None => Len(walk.cursors) = RequestsNeeded(n)
         /\ walk.next # None => Len(walk.cursors) < RequestsNeeded(n)
         /\ Len(walk.cursors) <= RequestsNeeded(n)

C30_Witness ==
  /\ WalkComplete
  /\ walk.searchText = Some(<<"c", "a", "t">>)
  /\ Len(walk.pages) > 50
  /\ Len(walk.pages) <= 100
  /\ Len(walk.cursors) = 2
  /\ walk.sizes[1] = 50

(* ---- C31 ---- *)
\* a request without cursor: a reset search (mount or debounce timer)
IsReset(request) == ~TruthyStr(request.cursor)

\* the index of the most recently issued reset search
LatestReset ==
  CHOOSE i \in 1..Len(issued) :
     /\ IsReset(issued[i])
     /\ \A j \in 1..Len(issued) : IsReset(issued[j]) => j <= i

\* the server's filtered sequence for a client query
ResultsFor(query) == filterAssets(assetCache, Some(query))

OccursIn(asset, seq) == \E j \in 1..Len(seq) : seq[j] = asset

\* C31: once the response of the most recently issued reset search has
\* been applied, every asset of the client's list is a resource the server
\* returns for that search text.
C31_OnlyLatestSearchShown ==
  (/\ phase = "mounted"
   /\ cacheInitialized
   /\ issued # <<>>
   /\ LatestReset \in arrived) =>
     \A k \in 1..Len(state.assets) :
        OccursIn(state.assets[k], ResultsFor(issued[LatestReset].query))

(* ---- C32 ---- *)
\* the load-more requests for the current search text that are in flight
LoadMoreInFlight ==
  {i \in InFlight : ~IsReset(issued[i]) /\ issued[i].query = state.searchText}

\* C32: at most one load-more request for the current search text is in
\* flight, and while the search text is the one of the mount the client's
\* list is a prefix of the server's filtered sequence with no asset twice.
C32_NoPageTwice ==
  /\ Cardinality(LoadMoreInFlight) <= 1
  /\ (phase = "mounted" /\ cacheInitialized /\ timerCount = 0) =>
       /\ \A i, j \in 1..Len(state.assets) :
            state.assets[i].id = state.assets[j].id => i = j
       /\ Len(state.assets) <= Len(ResultsFor(state.searchText))
       /\ state.assets = SubSeq(ResultsFor(state.searchText), 1, Len(state.assets))

(* ---- C33 ---- *)
\* the request sent in this step, if one was sent
Sent == issued'[Len(issued')]

CanLoadMore ==
  /\ phase = "mounted"
  /\ ~state.loading
  /\ state.hasMore
  /\ Len(state.assets) > 0
  /\ TruthyStr(state.continuation)

\* C34: with the search text unchanged since the mount, whenever load-more
\* can be triggered the cursor it will carry, the continuation held by the
\* client, is the decimal offset equal to the number of assets shown, and
\* the list shown is what the server returns before that offset.
C34_LoadMoreContinues ==
  (CanLoadMore /\ timerCount = 0) =>
     /\ ~parseInt(state.continuation[1]).nan
     /\ parseInt(state.continuation[1]).n = Len(state.assets)
     /\ state.assets = SubSeq(ResultsFor(state.searchText), 1, Len(state.assets))

====
